---- MODULE Spec2Model ----
(***************************************************************************)
(* Model of ovgenpy/renderer.py: LayoutConfig, RendererLayout (grid layout *)
(* and region arrangement) and MatplotlibRenderer (lazy first-frame         *)
(* initialisation, colour overrides, frame buffer extraction).              *)
(*                                                                         *)
(* Python values are represented as follows.                               *)
(*   Optional[int]  : an integer, None being the value None == -1           *)
(*                    (negative axis counts are outside the input domain).  *)
(*   list           : a sequence (1-based; Python index i is i+1 here).     *)
(*   Axes / Region  : the grid cell <<row, col>> the backend created it for.*)
(*   exceptions     : the field err of the record last, named after the     *)
(*                    error classes of the specification:                   *)
(*        ValueError raised at lines 196, 218, 231, 236 : "InvalidConfig"   *)
(*        ValueError raised at lines 119, 132          : "ArityMismatch"    *)
(*        ValueError raised at line 124                : "LifecycleViolation"*)
(*        RuntimeError 170, AssertionError 175, 178    : "BackendContractViolation"*)
(*        IndexError from self._lines[idx] at line 157 : "IndexError"       *)
(*        exceptions raised inside matplotlib          : "BackendError"     *)
(***************************************************************************)
EXTENDS Integers, Sequences, FiniteSets, TLC

VARIABLES lcfg, layout, calls, regions, nplots, fig, axes, axlims,
          lines, line_colors, last, colors_stored

\* colors_stored is a history variable: whether a set_colors call of this
\* renderer has returned after storing self._line_colors (line 127)
vars == <<lcfg, layout, calls, regions, nplots, fig, axes, axlims,
          lines, line_colors, last, colors_stored>>

\* ------------------------------------------------------------------ bounds
\* largest nrows / ncols given to the LayoutConfig of a stand-alone
\* RendererLayout, and to that of a MatplotlibRenderer
MaxAxis == 3
MaxRendererAxis == 2
\* largest nplots given to a stand-alone RendererLayout
MaxLayoutPlots == 7
\* largest nplots given to a MatplotlibRenderer
MaxPlots == 2
\* cfg.width and cfg.height of the RendererConfig
Width == 2
Height == 1

\* --------------------------------------------------------------- constants
None == -1
RGB_DEPTH == 3
VALID_ORIENTATIONS == {"h", "v"}

\* orientations given to LayoutConfig: the two valid ones and an invalid one
Orientations == {"h", "v", "x"}

\* Python truthiness of an Optional[int]
Truthy(x) == x # None /\ x # 0

Min(a, b) == IF a < b THEN a ELSE b

\* ovgenpy.util.ceildiv: ceiling of n / d, for d > 0
ceildiv(n, d) == (n + d - 1) \div d

\* ovgenpy.util.coalesce for two arguments: the first that is not None
NoColor == "None"
coalesce(a, b) == IF a # NoColor THEN a ELSE b

\* ------------------------------------------------------------ LayoutConfig
\* __post_init__ without the default of ncols
post_init_no_default(nr, nc, o) ==
    LET nrows1 == IF ~Truthy(nr) THEN None ELSE nr
        ncols1 == IF ~Truthy(nc) THEN None ELSE nc
    IN  IF Truthy(nrows1) /\ Truthy(ncols1)
        THEN [err |-> "InvalidConfig", made |-> FALSE,
              nrows |-> None, ncols |-> None, orientation |-> o]
        ELSE [err |-> "ok", made |-> TRUE,
              nrows |-> nrows1, ncols |-> ncols1, orientation |-> o]

\* LayoutConfig(nrows, ncols, orientation) followed by __post_init__
post_init(nr, nc, o) ==
    LET nrows1 == IF ~Truthy(nr) THEN None ELSE nr
        ncols1 == IF ~Truthy(nc) THEN None ELSE nc
    IN  IF Truthy(nrows1) /\ Truthy(ncols1)
        THEN [err |-> "InvalidConfig", made |-> FALSE,
              nrows |-> None, ncols |-> None, orientation |-> o]
        ELSE [err |-> "ok", made |-> TRUE,
              nrows |-> nrows1,
              ncols |-> IF ~Truthy(nrows1) /\ ~Truthy(ncols1) THEN 1 ELSE ncols1,
              orientation |-> o]

NoLayoutConfig == [made |-> FALSE, nrows |-> None, ncols |-> None, orientation |-> "h"]

\* ---------------------------------------------------------- RendererLayout
\* _calc_layout dividing with floor instead of ceildiv
calc_layout_floor(cfg, n) ==
    IF Truthy(cfg.nrows)
    THEN [err |-> "ok", nrows |-> cfg.nrows, ncols |-> n \div cfg.nrows]
    ELSE IF cfg.ncols = None
         THEN [err |-> "InvalidConfig", nrows |-> None, ncols |-> None]
         ELSE [err |-> "ok", nrows |-> n \div cfg.ncols, ncols |-> cfg.ncols]

\* _calc_layout taking the given axis count for the other axis
calc_layout_swapped(cfg, n) ==
    IF Truthy(cfg.nrows)
    THEN [err |-> "ok", nrows |-> ceildiv(n, cfg.nrows), ncols |-> cfg.nrows]
    ELSE IF cfg.ncols = None
         THEN [err |-> "InvalidConfig", nrows |-> None, ncols |-> None]
         ELSE [err |-> "ok", nrows |-> cfg.ncols, ncols |-> ceildiv(n, cfg.ncols)]

\* RendererLayout._calc_layout
calc_layout(cfg, n) ==
    IF Truthy(cfg.nrows)
    THEN [err |-> "ok", nrows |-> cfg.nrows, ncols |-> ceildiv(n, cfg.nrows)]
    ELSE IF cfg.ncols = None
         THEN [err |-> "InvalidConfig", nrows |-> None, ncols |-> None]
         ELSE [err |-> "ok", nrows |-> ceildiv(n, cfg.ncols), ncols |-> cfg.ncols]

NoLayout == [made |-> FALSE, nplots |-> 0, nrows |-> 0, ncols |-> 0, orientation |-> "h"]

\* RendererLayout.__init__ without the check of the orientation
RendererLayout_init_unchecked(cfg, n) ==
    LET g == calc_layout(cfg, n)
    IN  IF g.err # "ok"
        THEN [err |-> g.err, obj |-> NoLayout]
        ELSE [err |-> "ok",
              obj |-> [made |-> TRUE, nplots |-> n, nrows |-> g.nrows,
                       ncols |-> g.ncols, orientation |-> cfg.orientation]]

\* RendererLayout.__init__
RendererLayout_init(cfg, n) ==
    LET g == calc_layout(cfg, n)
    IN  IF g.err # "ok"
        THEN [err |-> g.err, obj |-> NoLayout]
        ELSE IF cfg.orientation \notin VALID_ORIENTATIONS
             THEN [err |-> "InvalidConfig", obj |-> NoLayout]
             ELSE [err |-> "ok",
                   obj |-> [made |-> TRUE, nplots |-> n, nrows |-> g.nrows,
                            ncols |-> g.ncols, orientation |-> cfg.orientation]]

\* np.unravel_index(np.arange(nspaces), (nrows, ncols)): the cells of the
\* grid in row-major order
row_col(nr, nc) ==
    [k \in 1..(nr * nc) |-> <<(k - 1) \div nc, (k - 1) % nc>>]

\* regions.reshape((nrows, ncols)): a 2-d array is a record of its shape and
\* its element function
reshape(flat, nr, nc) ==
    [nrows |-> nr, ncols |-> nc,
     at |-> [rc \in (0..(nr - 1)) \X (0..(nc - 1)) |-> flat[rc[1] * nc + rc[2] + 1]]]

\* a transposition that leaves the array as it is
transpose_none(a) == a

\* ndarray.T
transpose(a) ==
    [nrows |-> a.ncols, ncols |-> a.nrows,
     at |-> [cr \in (0..(a.ncols - 1)) \X (0..(a.nrows - 1)) |-> a.at[<<cr[2], cr[1]>>]]]

\* a flatten that reads the first row again for every row
flatten_first_row(a) ==
    [k \in 1..(a.nrows * a.ncols) |-> a.at[<<0, (k - 1) % a.ncols>>]]

\* ndarray.flatten(): row-major
flatten(a) ==
    [k \in 1..(a.nrows * a.ncols) |-> a.at[<<(k - 1) \div a.ncols, (k - 1) % a.ncols>>]]

\* arrange creating regions for the first nplots cells only
arrange_used_cells(l) ==
    LET rc        == row_col(l.nrows, l.ncols)
        used      == SubSeq(rc, 1, Min(l.nplots, Len(rc)))
        regions2d == reshape(rc, l.nrows, l.ncols)
        oriented  == IF l.orientation = "v" THEN transpose(regions2d) ELSE regions2d
        flat      == flatten(oriented)
    IN  [calls |-> used, regions |-> SubSeq(flat, 1, Min(l.nplots, Len(flat)))]

\* RendererLayout.arrange with a region factory that returns, for (row, col),
\* the region of that cell: the factory invocations in order, and the result
arrange(l) ==
    LET rc        == row_col(l.nrows, l.ncols)
        regs      == [k \in 1..Len(rc) |-> rc[k]]
        regions2d == reshape(regs, l.nrows, l.ncols)
        oriented  == IF l.orientation = "v" THEN transpose(regions2d) ELSE regions2d
        flat      == flatten(oriented)
    IN  [calls |-> rc, regions |-> SubSeq(flat, 1, Min(l.nplots, Len(flat)))]

\* ------------------------------------------------------------ result record
\* the last operation and its outcome: the length of the list it was given
\* (None if it takes no list), the exception raised ("ok" if none), the value
\* returned (None if none) and the backend calls it made, in order
Call(f, i) == [f |-> f, i |-> i]
Result(op, arglen, err, ret, backend) ==
    [op |-> op, arglen |-> arglen, err |-> err, ret |-> ret, backend |-> backend]

\* no call is in progress and no outcome is pending: the caller may call
NoResult == Result("none", None, "ok", None, <<>>)
Idle == last = NoResult

\* ---------------------------------------------------------- RendererConfig
cfg == [width |-> Width, height |-> Height, bg_color |-> "black",
        init_line_color |-> "default", line_width |-> None, create_window |-> FALSE]

\* line colours a ChannelConfig can carry: none, a valid one, and one that
\* matplotlib rejects when it is used to plot
Colors == {NoColor, "red", "bad"}
\* channel data: arrays of two different lengths
Datas == {<<0, 1>>, <<1, 0, 1>>}

\* the lists of length n over S
RECURSIVE ListsOfLen(_, _)
ListsOfLen(S, n) ==
    IF n = 0 THEN {<<>>}
    ELSE {Append(l, x) : l \in ListsOfLen(S, n - 1), x \in S}
ListsUpTo(S, n) == UNION {ListsOfLen(S, k) : k \in 0..n}
\* the lists a renderer of n plots is given: every list of length n, and of
\* the lists of one element more or one element less those of equal elements
Given(l, n) ==
    \/ Len(l) = n
    \/ Len(l) \in {n - 1, n + 1} /\ \A i \in 1..Len(l) : l[i] = l[1]

\* ------------------------------------------------------ MatplotlibRenderer
NoFig == [made |-> FALSE, facecolor |-> "unset", drawn |-> FALSE]
NoLim == [xlim |-> <<None, None>>, ylim |-> <<None, None>>]
LinesNone == [none |-> TRUE, elems |-> <<>>]

Init ==
    /\ lcfg = NoLayoutConfig
    /\ layout = NoLayout
    /\ calls = <<>>
    /\ regions = <<>>
    /\ nplots = 0
    /\ fig = NoFig
    /\ axes = <<>>
    /\ axlims = <<>>
    /\ lines = LinesNone
    /\ line_colors = <<>>
    /\ last = NoResult
    /\ colors_stored = FALSE

\* LayoutConfig(nrows=nr, ncols=nc, orientation=o)
NewLayoutConfig(nr, nc, o) ==
    /\ Idle
    /\ ~lcfg.made
    /\ LET r == post_init(nr, nc, o)
       IN  /\ lcfg' = IF r.err = "ok"
                      THEN [made |-> TRUE, nrows |-> r.nrows, ncols |-> r.ncols,
                            orientation |-> r.orientation]
                      ELSE lcfg
           /\ last' = Result("LayoutConfig", None, r.err, None, <<>>)
    /\ UNCHANGED <<layout, calls, regions, nplots, fig, axes, axlims, lines, line_colors,
                   colors_stored>>

\* RendererLayout(lcfg, n), stand-alone
NewRendererLayout(n) ==
    /\ Idle
    /\ lcfg.made
    /\ ~layout.made
    /\ LET r == RendererLayout_init(lcfg, n)
       IN  /\ layout' = r.obj
           /\ last' = Result("RendererLayout", None, r.err, None, <<>>)
    /\ UNCHANGED <<lcfg, calls, regions, nplots, fig, axes, axlims, lines, line_colors,
                   colors_stored>>

\* layout.arrange(region_factory), stand-alone
Arrange ==
    /\ Idle
    /\ layout.made
    /\ ~fig.made
    /\ LET a == arrange(layout)
       IN  /\ calls' = a.calls
           /\ regions' = a.regions
           /\ last' = Result("arrange", None, "ok", None, <<>>)
    /\ UNCHANGED <<lcfg, layout, nplots, fig, axes, axlims, lines, line_colors,
                   colors_stored>>

\* the backend calls of _set_layout for a grid of nspaces cells
set_layout_calls(nspaces) ==
    <<Call("subplots", None)>>
    \o [k \in 1..nspaces |-> Call("set_axis_off", k - 1)]
    \o <<Call("set_dpi", None), Call("set_size_inches", None)>>

\* MatplotlibRenderer(cfg, lcfg, n): __init__ and the _set_layout it calls.
\* accept: whether plt.subplots returns; a grid with a zero dimension is the
\* backend's to accept or to reject.
NewMatplotlibRenderer(n, accept) ==
    /\ Idle
    /\ lcfg.made
    /\ ~layout.made
    /\ ~fig.made
    /\ LET r == RendererLayout_init(lcfg, n)
       IN  IF r.err # "ok"
           THEN /\ accept
                /\ last' = Result("MatplotlibRenderer", None, r.err, None, <<>>)
                /\ UNCHANGED <<layout, calls, nplots, fig, axes, axlims, line_colors>>
           ELSE /\ (~accept => r.obj.nrows * r.obj.ncols = 0)
                /\ IF ~accept
                   THEN /\ last' = Result("MatplotlibRenderer", None, "BackendError", None,
                                          <<Call("subplots", None)>>)
                        /\ UNCHANGED <<layout, calls, nplots, fig, axes, axlims, line_colors>>
                   ELSE LET a == arrange(r.obj)
                        IN  /\ layout' = r.obj
                            /\ nplots' = n
                            /\ line_colors' = [i \in 1..n |-> NoColor]
                            /\ fig' = [made |-> TRUE, facecolor |-> "unset", drawn |-> FALSE]
                            /\ axlims' = [c \in (0..(r.obj.nrows - 1)) \X (0..(r.obj.ncols - 1)) |-> NoLim]
                            /\ calls' = a.calls
                            /\ axes' = a.regions
                            /\ last' = Result("MatplotlibRenderer", None, "ok", None,
                                              set_layout_calls(r.obj.nrows * r.obj.ncols))
    /\ UNCHANGED <<lcfg, regions, lines, colors_stored>>

\* set_colors without the check of self._lines
set_colors_any_time(channel_cfgs) ==
    IF Len(channel_cfgs) # nplots
    THEN [err |-> "ArityMismatch", line_colors |-> line_colors]
    ELSE [err |-> "ok",
          line_colors |-> [i \in 1..Len(channel_cfgs) |-> channel_cfgs[i]]]

\* set_colors storing the colours before the check of self._lines
set_colors_assign_first(channel_cfgs) ==
    IF Len(channel_cfgs) # nplots
    THEN [err |-> "ArityMismatch", line_colors |-> line_colors]
    ELSE IF ~lines.none
         THEN [err |-> "LifecycleViolation",
               line_colors |-> [i \in 1..Len(channel_cfgs) |-> channel_cfgs[i]]]
         ELSE [err |-> "ok",
               line_colors |-> [i \in 1..Len(channel_cfgs) |-> channel_cfgs[i]]]

\* MatplotlibRenderer.set_colors(channel_cfgs); channel_cfgs is given as the
\* list of the line_color of each ChannelConfig
set_colors(channel_cfgs) ==
    IF Len(channel_cfgs) # nplots
    THEN [err |-> "ArityMismatch", line_colors |-> line_colors]
    ELSE IF ~lines.none
         THEN [err |-> "LifecycleViolation", line_colors |-> line_colors]
         ELSE [err |-> "ok",
               line_colors |-> [i \in 1..Len(channel_cfgs) |-> channel_cfgs[i]]]

SetColors(channel_cfgs) ==
    /\ Idle
    /\ fig.made
    /\ Given(channel_cfgs, nplots)
    /\ \E r \in {set_colors(channel_cfgs)} :
           /\ line_colors' = r.line_colors
           /\ colors_stored' = (colors_stored \/ r.err = "ok")
           /\ last' = Result("set_colors", Len(channel_cfgs), r.err, None, <<>>)
    /\ UNCHANGED <<lcfg, layout, calls, regions, nplots, fig, axes, axlims, lines>>

\* every channel plotted with the default colour
line_color_default(idx) == cfg.init_line_color

\* the colour channel idx (1-based) is plotted with
line_color(idx) == coalesce(line_colors[idx], cfg.init_line_color)

\* ax.plot raises on a colour matplotlib does not know: the first channel
\* (1-based) of the first-frame loop whose plot raises, Len(datas) + 1 if none
first_failing(datas) ==
    LET bad == {i \in 1..Len(datas) : line_color(i) = "bad"}
    IN  IF bad = {} THEN Len(datas) + 1
        ELSE CHOOSE i \in bad : \A j \in bad : i <= j

\* every line plotted on the first Axes of the figure
Line2D_first_axes(ax, data, color, linewidth) ==
    [ax |-> <<0, 0>>, color |-> color, linewidth |-> linewidth,
     xlen |-> Len(data), ydata |-> data]

\* the Line2D that ax.plot(data, color, linewidth) creates on ax
Line2D(ax, data, color, linewidth) ==
    [ax |-> ax, color |-> color, linewidth |-> linewidth,
     xlen |-> Len(data), ydata |-> data]

\* the backend calls of the loop of lines 141-152 that reaches the channels
\* 1..done (0-based in the calls, as idx is)
first_frame_calls(done) ==
    [j \in 1..(3 * done) |->
        LET idx == (j - 1) \div 3
            step == (j - 1) % 3
        IN  IF step = 0 THEN Call("set_xlim", idx)
            ELSE IF step = 1 THEN Call("set_ylim", idx)
            ELSE Call("plot", idx)]

draw_calls == <<Call("draw", None), Call("flush_events", None)>>

\* MatplotlibRenderer.render_frame(datas), first call (self._lines is None),
\* lines 137-152 and 160-161: of the n channels of datas, the loop reaches the
\* channels 1..done and appends the lines of the channels 1..plotted; k is
\* the channel whose plot raises, n + 1 if none
render_first_until(datas, n, k, done, plotted) ==
    LET newlims == [c \in DOMAIN axlims |->
                      LET on == {i \in 1..done : axes[i] = c}
                      IN  IF on = {} THEN axlims[c]
                          ELSE LET i == CHOOSE i \in on : \A j \in on : j <= i
                               IN  [xlim |-> <<0, Len(datas[i]) - 1>>, ylim |-> <<-1, 1>>]]
        newlines == [none |-> FALSE,
                     elems |-> [i \in 1..plotted |->
                                  Line2D(axes[i], datas[i], line_color(i), cfg.line_width)]]
        pre     == <<Call("set_facecolor", None)>> \o first_frame_calls(done)
    IN  [err |-> IF k <= n THEN "BackendError" ELSE "ok",
         lines |-> newlines,
         axlims |-> newlims,
         fig |-> [fig EXCEPT !.facecolor = cfg.bg_color,
                             !.drawn = IF k <= n THEN fig.drawn ELSE TRUE],
         backend |-> IF k <= n THEN pre ELSE pre \o draw_calls]

render_first_to(datas, k) ==
    render_first_until(datas, Len(datas), k, Min(k, Len(datas)), k - 1)

render_first(datas) == render_first_to(datas, first_failing(datas))

\* later calls of render_frame drawing the canvas before the lines are updated
render_update_draw_first(datas, drawfails) ==
    LET n    == Len(datas)
        m    == Len(lines.elems)
        upd  == Min(m, n)
        newelems == [i \in 1..m |->
                       IF i <= upd THEN [lines.elems[i] EXCEPT !.ydata = datas[i]]
                       ELSE lines.elems[i]]
        sets == [i \in 1..upd |-> Call("set_ydata", i - 1)]
    IN  IF m < n
        THEN [err |-> "IndexError", lines |-> [lines EXCEPT !.elems = newelems],
              axlims |-> axlims, fig |-> fig, backend |-> sets]
        ELSE IF drawfails
             THEN [err |-> "BackendError", lines |-> [lines EXCEPT !.elems = newelems],
                   axlims |-> axlims, fig |-> fig,
                   backend |-> <<Call("draw", None)>> \o sets]
             ELSE [err |-> "ok", lines |-> [lines EXCEPT !.elems = newelems],
                   axlims |-> axlims, fig |-> [fig EXCEPT !.drawn = TRUE],
                   backend |-> draw_calls \o sets]

\* later calls of render_frame setting the x limits anew from the data
render_update_new_limits(datas, drawfails) ==
    LET n    == Len(datas)
        m    == Len(lines.elems)
        upd  == Min(m, n)
        newelems == [i \in 1..m |->
                       IF i <= upd THEN [lines.elems[i] EXCEPT !.ydata = datas[i]]
                       ELSE lines.elems[i]]
        newlims == [c \in DOMAIN axlims |->
                      LET on == {i \in 1..upd : axes[i] = c}
                      IN  IF on = {} THEN axlims[c]
                          ELSE LET i == CHOOSE i \in on : \A j \in on : j <= i
                               IN  [axlims[c] EXCEPT !.xlim = <<0, Len(datas[i]) - 1>>]]
        sets == [i \in 1..upd |-> Call("set_ydata", i - 1)]
    IN  IF m < n
        THEN [err |-> "IndexError", lines |-> [lines EXCEPT !.elems = newelems],
              axlims |-> newlims, fig |-> fig, backend |-> sets]
        ELSE IF drawfails
             THEN [err |-> "BackendError", lines |-> [lines EXCEPT !.elems = newelems],
                   axlims |-> newlims, fig |-> fig,
                   backend |-> sets \o <<Call("draw", None)>>]
             ELSE [err |-> "ok", lines |-> [lines EXCEPT !.elems = newelems],
                   axlims |-> newlims, fig |-> [fig EXCEPT !.drawn = TRUE],
                   backend |-> sets \o draw_calls]

\* MatplotlibRenderer.render_frame(datas), later calls, lines 156-161.
\* drawfails: whether canvas.draw() raises; the backend may do so when a line's
\* xdata and ydata differ in length.
render_update(datas, drawfails) ==
    LET n    == Len(datas)
        m    == Len(lines.elems)
        upd  == Min(m, n)
        newelems == [i \in 1..m |->
                       IF i <= upd THEN [lines.elems[i] EXCEPT !.ydata = datas[i]]
                       ELSE lines.elems[i]]
        sets == [i \in 1..upd |-> Call("set_ydata", i - 1)]
    IN  IF m < n
        THEN [err |-> "IndexError", lines |-> [lines EXCEPT !.elems = newelems],
              axlims |-> axlims, fig |-> fig, backend |-> sets]
        ELSE IF drawfails
             THEN [err |-> "BackendError", lines |-> [lines EXCEPT !.elems = newelems],
                   axlims |-> axlims, fig |-> fig,
                   backend |-> sets \o <<Call("draw", None)>>]
             ELSE [err |-> "ok", lines |-> [lines EXCEPT !.elems = newelems],
                   axlims |-> axlims, fig |-> [fig EXCEPT !.drawn = TRUE],
                   backend |-> sets \o draw_calls]

\* render_frame rejecting only a list that is too long
render_frame_too_long(datas, drawfails) ==
    IF nplots < Len(datas)
    THEN [err |-> "ArityMismatch", lines |-> lines, axlims |-> axlims, fig |-> fig,
          backend |-> <<>>]
    ELSE IF lines.none
         THEN render_first(datas)
         ELSE render_update(datas, drawfails)

\* MatplotlibRenderer.render_frame(datas)
render_frame(datas, drawfails) ==
    IF nplots # Len(datas)
    THEN [err |-> "ArityMismatch", lines |-> lines, axlims |-> axlims, fig |-> fig,
          backend |-> <<>>]
    ELSE IF lines.none
         THEN render_first(datas)
         ELSE render_update(datas, drawfails)

\* whether canvas.draw() can raise once datas has been stored in the lines:
\* render_frame reaches it with a line whose xdata has another length
draw_can_fail(datas) ==
    /\ nplots = Len(datas)
    /\ ~lines.none
    /\ Len(lines.elems) >= Len(datas)
    /\ \E i \in 1..Len(lines.elems) :
          Len(IF i <= Len(datas) THEN datas[i] ELSE lines.elems[i].ydata)
              # lines.elems[i].xlen

RenderFrame(datas, drawfails) ==
    /\ Idle
    /\ fig.made
    /\ Given(datas, nplots)
    /\ (drawfails => draw_can_fail(datas))
    /\ \E r \in {render_frame(datas, drawfails)} :
           /\ lines' = r.lines
           /\ axlims' = r.axlims
           /\ fig' = r.fig
           /\ last' = Result("render_frame", Len(datas), r.err, None, r.backend)
    /\ UNCHANGED <<lcfg, layout, calls, regions, nplots, axes, line_colors,
                   colors_stored>>

\* get_frame without the check of the length of the buffer
get_frame_unchecked_length(agg, wh, buflen, raises) ==
    IF ~agg
    THEN [err |-> "BackendContractViolation", ret |-> None,
          backend |-> <<>>]
    ELSE IF <<cfg.width, cfg.height>> # wh
         THEN [err |-> "BackendContractViolation", ret |-> None,
               backend |-> <<Call("get_width_height", None)>>]
         ELSE IF raises
              THEN [err |-> "BackendError", ret |-> None,
                    backend |-> <<Call("get_width_height", None),
                                  Call("tostring_rgb", None)>>]
              ELSE [err |-> "ok", ret |-> buflen,
                    backend |-> <<Call("get_width_height", None),
                                  Call("tostring_rgb", None)>>]

\* MatplotlibRenderer.get_frame() on a canvas of which agg says whether it is
\* a FigureCanvasAgg, wh is what canvas.get_width_height() returns and buflen
\* is the length of what canvas.tostring_rgb() returns; raises: whether
\* tostring_rgb raises instead
get_frame(agg, wh, buflen, raises) ==
    IF ~agg
    THEN [err |-> "BackendContractViolation", ret |-> None,
          backend |-> <<>>]
    ELSE IF <<cfg.width, cfg.height>> # wh
         THEN [err |-> "BackendContractViolation", ret |-> None,
               backend |-> <<Call("get_width_height", None)>>]
         ELSE IF raises
              THEN [err |-> "BackendError", ret |-> None,
                    backend |-> <<Call("get_width_height", None),
                                  Call("tostring_rgb", None)>>]
              ELSE IF buflen # cfg.width * cfg.height * RGB_DEPTH
                   THEN [err |-> "BackendContractViolation", ret |-> None,
                         backend |-> <<Call("get_width_height", None),
                                       Call("tostring_rgb", None)>>]
                   ELSE [err |-> "ok", ret |-> buflen,
                         backend |-> <<Call("get_width_height", None),
                                       Call("tostring_rgb", None)>>]

\* what the backend can answer to get_width_height and tostring_rgb
CanvasSizes == {<<cfg.width, cfg.height>>, <<cfg.width + 1, cfg.height>>}
BufferLens == {cfg.width * cfg.height * RGB_DEPTH, cfg.width * cfg.height * (RGB_DEPTH + 1)}

\* a canvas that was never drawn may have no renderer to read pixels from,
\* and tostring_rgb may then raise or return the pixels of a blank surface
GetFrame(agg, wh, buflen, raises) ==
    /\ Idle
    /\ fig.made
    /\ (raises => ~fig.drawn)
    /\ \E r \in {get_frame(agg, wh, buflen, raises)} :
           last' = Result("get_frame", None, r.err, r.ret, r.backend)
    /\ UNCHANGED <<lcfg, layout, calls, regions, nplots, fig, axes, axlims, lines,
                   line_colors, colors_stored>>

\* the call returns or raises: the caller has its outcome, and is free to
\* make the next call (calls are sequential, none starts before the last
\* one has returned)
Return ==
    /\ ~Idle
    /\ last' = NoResult
    /\ UNCHANGED <<lcfg, layout, calls, regions, nplots, fig, axes, axlims, lines,
                   line_colors, colors_stored>>

\* ------------------------------------------------------------ specifications
AxisCounts == {None} \cup (0..MaxAxis)
\* the lists given to set_colors and to render_frame
ColorLists == ListsUpTo(Colors, MaxPlots + 1)
DataLists == ListsUpTo(Datas, MaxPlots + 1)
\* the axis counts given to the LayoutConfig of a MatplotlibRenderer
RendererAxisCounts == {None} \cup (0..MaxRendererAxis)

\* a MatplotlibRenderer and its callers
Next ==
    \/ \E nr \in RendererAxisCounts, nc \in RendererAxisCounts, o \in Orientations :
          NewLayoutConfig(nr, nc, o)
    \/ \E n \in 0..MaxPlots, accept \in BOOLEAN : NewMatplotlibRenderer(n, accept)
    \/ \E cs \in ColorLists : SetColors(cs)
    \/ \E ds \in DataLists, drawfails \in BOOLEAN : RenderFrame(ds, drawfails)
    \/ \E agg \in BOOLEAN, wh \in CanvasSizes, buflen \in BufferLens, raises \in BOOLEAN :
          GetFrame(agg, wh, buflen, raises)
    \/ Return

Spec == Init /\ [][Next]_vars

\* a stand-alone RendererLayout and its callers
NextLayout ==
    \/ \E nr \in AxisCounts, nc \in AxisCounts, o \in Orientations : NewLayoutConfig(nr, nc, o)
    \/ \E n \in 0..MaxLayoutPlots : NewRendererLayout(n)
    \/ Arrange
    \/ Return

SpecLayout == Init /\ [][NextLayout]_vars

\* ------------------------------------------------------------------ claims
\* the grid is the shape (nrows, ncols) of a constructed RendererLayout
ArrangeDone == layout.made /\ last.op = "arrange"
\* the cell of index i (0-based) of a grid of nc columns, in row-major order
RowMajorCell(i, nc) == <<i \div nc, i % nc>>
\* the cell of index i (0-based) of a grid of nr rows, in column-major order
ColMajorCell(i, nr) == <<i % nr, i \div nr>>

\* C1: for every nplots >= 0 and every valid layout configuration the grid
\* has at least nplots cells, and arrange returns exactly nplots regions.
C1_GridHoldsAllChannels ==
    /\ layout.made => layout.nrows * layout.ncols >= layout.nplots
    /\ ArrangeDone => Len(regions) = layout.nplots

C1_Witness ==
    /\ ArrangeDone
    /\ layout.nplots = 5 /\ layout.nrows = 2 /\ layout.ncols = 3
    /\ Len(regions) = 5

\* C2: when nrows is set the grid has nrows rows and the least number of
\* columns that holds nplots channels (the ceiling of nplots / nrows);
\* otherwise it has ncols columns and the least such number of rows.
C2_ComputeGrid ==
    layout.made =>
        IF Truthy(lcfg.nrows)
        THEN /\ layout.nrows = lcfg.nrows
             /\ layout.ncols * layout.nrows >= layout.nplots
             /\ (layout.ncols - 1) * layout.nrows < layout.nplots
        ELSE /\ layout.ncols = lcfg.ncols
             /\ layout.nrows * layout.ncols >= layout.nplots
             /\ (layout.nrows - 1) * layout.ncols < layout.nplots

C2_Witness ==
    /\ layout.made
    /\ lcfg.nrows = 3 /\ layout.nplots = 7
    /\ layout.nrows = 3 /\ layout.ncols = 3

\* C3: arrange calls the region factory once for every cell of the grid, in
\* row-major order, unused cells included; with orientation 'h' channel i
\* gets the region of the cell (i div ncols, i mod ncols).
C3_FactoryEveryCellRowMajor ==
    ArrangeDone =>
        /\ Len(calls) = layout.nrows * layout.ncols
        /\ \A k \in 1..Len(calls) : calls[k] = RowMajorCell(k - 1, layout.ncols)
        /\ \A r \in 0..(layout.nrows - 1), c \in 0..(layout.ncols - 1) :
               Cardinality({k \in 1..Len(calls) : calls[k] = <<r, c>>}) = 1
        /\ layout.orientation = "h" =>
               \A i \in 1..layout.nplots : regions[i] = RowMajorCell(i - 1, layout.ncols)

C3_Witness ==
    /\ ArrangeDone
    /\ layout.orientation = "h"
    /\ layout.nplots = 5 /\ layout.nrows = 2 /\ layout.ncols = 3
    /\ Len(calls) = 6
    /\ regions[5] = <<1, 1>>

\* C4: with orientation 'v' channel i gets the region of the cell
\* (i mod nrows, i div nrows), and the grid has the shape it has for
\* orientation 'h' with the same configuration and nplots.
C4_VerticalColumnMajor ==
    /\ (ArrangeDone /\ layout.orientation = "v") =>
           \A i \in 1..layout.nplots : regions[i] = ColMajorCell(i - 1, layout.nrows)
    /\ layout.made =>
           LET h == RendererLayout_init([lcfg EXCEPT !.orientation = "h"], layout.nplots).obj
           IN  layout.nrows = h.nrows /\ layout.ncols = h.ncols

C4_Witness ==
    /\ ArrangeDone
    /\ layout.orientation = "v"
    /\ layout.nplots = 5 /\ layout.nrows = 2 /\ layout.ncols = 3
    /\ regions[2] = <<1, 0>>
    /\ regions[5] = <<0, 2>>

\* C5: a constructed LayoutConfig has exactly one of nrows / ncols set; when
\* neither is given ncols becomes 1; giving both raises InvalidConfig.
C5_ExactlyOneAxis ==
    [][\A nr \in AxisCounts, nc \in AxisCounts, o \in Orientations :
         NewLayoutConfig(nr, nc, o) =>
            /\ (Truthy(nr) /\ Truthy(nc)) =>
                   (last'.err = "InvalidConfig" /\ ~lcfg'.made)
            /\ ~(Truthy(nr) /\ Truthy(nc)) =>
                   /\ last'.err = "ok"
                   /\ lcfg'.made
                   /\ Truthy(lcfg'.nrows) # Truthy(lcfg'.ncols)
            /\ (~Truthy(nr) /\ ~Truthy(nc)) =>
                   (lcfg'.ncols = 1 /\ lcfg'.nrows = None)]_vars

C5_Witness ==
    /\ last.op = "LayoutConfig" /\ last.err = "ok"
    /\ lcfg.made
    /\ lcfg.nrows = None /\ lcfg.ncols = 1

\* C6: constructing a MatplotlibRenderer with an orientation other than 'h'
\* or 'v' raises InvalidConfig, and no figure, no axes and no region has been
\* created by then.
C6_InvalidOrientationRejected ==
    (lcfg.made /\ lcfg.orientation \notin VALID_ORIENTATIONS) =>
        /\ ~fig.made
        /\ ~layout.made
        /\ calls = <<>>
        /\ axes = <<>>
        /\ last.op = "MatplotlibRenderer" =>
               (last.err = "InvalidConfig" /\ last.backend = <<>>)

C6_Witness ==
    /\ last.op = "MatplotlibRenderer"
    /\ last.err = "InvalidConfig"
    /\ lcfg.orientation = "x"
    /\ ~fig.made

\* the state of the renderer that set_colors, render_frame and get_frame see
rstate == <<nplots, layout, fig, axes, axlims, lines, line_colors>>
\* the backend calls of the last operation contain a call of f
Called(r, f) == \E k \in 1..Len(r.backend) : r.backend[k].f = f

\* C7, as claimed (on a renderer of at least one plot): once a render_frame
\* has succeeded, set_colors raises LifecycleViolation whatever its argument,
\* and changes neither the stored colours nor the lines.
C7_AnyArgumentLifecycleViolation ==
    [][(nplots > 0 /\ fig.drawn /\ last'.op = "set_colors") =>
          /\ last'.err = "LifecycleViolation"
          /\ UNCHANGED <<line_colors, lines>>]_vars

\* C7, amended: once a render_frame has succeeded, set_colors raises
\* LifecycleViolation when its argument has nplots entries and ArityMismatch
\* when it has not, and in both cases changes neither the stored colours nor
\* the lines.
C7_SetColorsFailsAfterRender ==
    [][(fig.drawn /\ last'.op = "set_colors") =>
          /\ last'.err = IF last'.arglen = nplots
                         THEN "LifecycleViolation" ELSE "ArityMismatch"
          /\ UNCHANGED <<line_colors, lines>>]_vars

C7_Witness ==
    /\ fig.drawn
    /\ last.op = "set_colors"
    /\ last.arglen = nplots
    /\ last.err = "LifecycleViolation"
    /\ nplots = 2

\* C8: set_colors or render_frame given a list whose length is not nplots
\* raises ArityMismatch, changes nothing of the renderer and draws nothing.
C8_ArityMismatchChangesNothing ==
    [][(last'.op \in {"set_colors", "render_frame"} /\ last'.arglen # nplots) =>
          /\ last'.err = "ArityMismatch"
          /\ UNCHANGED rstate
          /\ ~Called(last', "draw")]_vars

C8_Witness ==
    /\ last.op = "render_frame"
    /\ last.arglen = 1 /\ nplots = 2
    /\ last.err = "ArityMismatch"
    /\ ~lines.none

C10_FrameBufferLength ==
    [][last'.op = "get_frame" =>
          /\ UNCHANGED rstate
          /\ last'.err = "ok" => last'.ret = cfg.width * cfg.height * 3
          /\ \A agg \in BOOLEAN, wh \in CanvasSizes, buflen \in BufferLens, raises \in BOOLEAN :
                GetFrame(agg, wh, buflen, raises) =>
                   /\ ~agg => last'.err = "BackendContractViolation"
                   /\ (Called(last', "tostring_rgb") /\ ~raises
                         /\ buflen # cfg.width * cfg.height * 3) =>
                         last'.err = "BackendContractViolation"]_vars

C10_Witness ==
    /\ last.op = "get_frame"
    /\ Called(last, "tostring_rgb")
    /\ last.err = "BackendContractViolation"
    /\ fig.drawn /\ ~lines.none

\* C11: the colour of the line of channel i is the colour set for the channel
\* if there is one, else cfg.init_line_color; it is the colour set at the
\* first render_frame, and no later operation changes it.
C11_ColorResolvedOnce ==
    /\ [](~lines.none =>
            \A i \in 1..Len(lines.elems) :
               lines.elems[i].color = IF line_colors[i] # NoColor
                                      THEN line_colors[i]
                                      ELSE cfg.init_line_color)
    /\ [][~lines.none =>
            /\ Len(lines'.elems) = Len(lines.elems)
            /\ \A i \in 1..Len(lines.elems) :
                  lines'.elems[i].color = lines.elems[i].color]_vars

C11_Witness ==
    /\ fig.drawn
    /\ nplots = 2 /\ Len(lines.elems) = 2
    /\ line_colors = <<"red", NoColor>>
    /\ lines.elems[1].color = "red"
    /\ lines.elems[2].color = "default"
    /\ last.op = "set_colors" /\ last.err = "LifecycleViolation"

\* C12: the lifecycle is one-way: self._lines is None from construction until
\* the first successful render_frame, is a list from that call on, and never
\* becomes None again.
C12_LifecycleOneWay ==
    /\ [](fig.made => (lines.none <=> ~fig.drawn))
    /\ [][~lines.none => ~lines'.none]_vars

\* C13 (as stated): at most one set_colors call succeeds in storing the
\* colours, and only while no render_frame has run.
C13_AtMostOneSetColorsSucceeds ==
    [][(nplots > 0 /\ last'.op = "set_colors" /\ last'.err = "ok") =>
          (~colors_stored /\ lines.none)]_vars

\* C13: a set_colors call succeeds only while self._lines is None, that is
\* before any render_frame has passed its check of the number of channels,
\* whether or not an earlier call succeeded; and the stored colours of a
\* renderer change in no other step than such a call.
C13_SetColorsOnlyBeforeRender ==
    [][/\ (last'.op = "set_colors" /\ last'.err = "ok") =>
              (lines.none /\ ~fig.drawn /\ colors_stored')
       /\ (fig.made /\ line_colors' # line_colors) =>
              (lines.none /\ last'.op = "set_colors" /\ last'.err = "ok")]_vars

C13_Witness ==
    /\ nplots = 2
    /\ colors_stored
    /\ last.op = "set_colors" /\ last.err = "ok"
    /\ line_colors = <<"red", NoColor>>
    /\ lines.none

\* C14: for every nplots >= 0, zero included, and every valid LayoutConfig,
\* the nrows and ncols of the RendererLayout are both at least 1.
C14_GridDimensionsPositive ==
    layout.made => (layout.nrows >= 1 /\ layout.ncols >= 1)

\* the positions of the calls f(i) among the backend calls of an operation
CallsOf(r, f, i) == {p \in 1..Len(r.backend) : r.backend[p] = Call(f, i)}

\* C15: the first successful render_frame sets the background colour of the
\* figure and then, for each channel i, sets the limits of the Axes of channel
\* i to x in [0, len(datas[i]) - 1] and y in [-1, 1] and after that plots
\* exactly one line on that Axes; when it returns exactly nplots lines are
\* stored, line i on the Axes of channel i.
C15_FirstFrameCreatesLines ==
    [][(lines.none /\ last'.op = "render_frame" /\ last'.err = "ok") =>
          /\ ~lines'.none
          /\ Len(lines'.elems) = nplots
          /\ fig'.facecolor = cfg.bg_color
          /\ CallsOf(last', "set_facecolor", None) = {1}
          /\ \A i \in 1..nplots :
                /\ lines'.elems[i].ax = axes[i]
                /\ lines'.elems[i].xlen = Len(lines'.elems[i].ydata)
                /\ axlims'[axes[i]] =
                      [xlim |-> <<0, Len(lines'.elems[i].ydata) - 1>>,
                       ylim |-> <<-1, 1>>]
                /\ Cardinality(CallsOf(last', "plot", i - 1)) = 1
                /\ \A p \in CallsOf(last', "plot", i - 1) :
                      /\ \E q \in CallsOf(last', "set_xlim", i - 1) : 1 < q /\ q < p
                      /\ \E q \in CallsOf(last', "set_ylim", i - 1) : 1 < q /\ q < p]_vars

C15_Witness ==
    /\ last.op = "render_frame" /\ last.err = "ok"
    /\ CallsOf(last, "set_facecolor", None) # {}
    /\ nplots = 2 /\ Len(lines.elems) = 2
    /\ lines.elems[1].ax # lines.elems[2].ax
    /\ axlims[axes[1]].xlim = <<0, 1>>
    /\ axlims[axes[2]].xlim = <<0, 2>>

\* C16: a render_frame call made when self._lines is a list changes nothing
\* of the renderer but the y data of the stored lines, line i receiving
\* datas[i]: no line is created or replaced, and the Axes, the x data, the
\* colour and the width of each line, the limits of the Axes and the
\* background colour stay as they are, also when the data has another length
\* than that of the first frame.
C16_UpdateChangesOnlyYData ==
    [][(~lines.none /\ last'.op = "render_frame") =>
          /\ ~lines'.none
          /\ Len(lines'.elems) = Len(lines.elems)
          /\ \A i \in 1..Len(lines.elems) :
                lines'.elems[i] = [lines.elems[i] EXCEPT !.ydata = lines'.elems[i].ydata]
          /\ axlims' = axlims
          /\ fig'.facecolor = fig.facecolor
          /\ UNCHANGED <<nplots, layout, axes, line_colors>>
          /\ \A p \in 1..Len(last'.backend) :
                last'.backend[p].f \in {"set_ydata", "draw", "flush_events"}
          /\ last'.err = "ok" =>
                \A datas \in DataLists, drawfails \in BOOLEAN :
                   RenderFrame(datas, drawfails) =>
                      \A i \in 1..nplots : lines'.elems[i].ydata = datas[i]]_vars

C16_Witness ==
    /\ last.op = "render_frame" /\ last.err = "ok"
    /\ CallsOf(last, "set_ydata", 0) # {}
    /\ nplots = 2 /\ Len(lines.elems) = 2
    /\ lines.elems[1].xlen = 2 /\ Len(lines.elems[1].ydata) = 3
    /\ axlims[axes[1]].xlim = <<0, 1>>

\* C17: every render_frame call that returns, the first and the later ones,
\* has called canvas.draw() exactly once, after the line of every channel was
\* plotted or was given its y data in that call; set_colors calls nothing of
\* the backend, canvas.draw() included.
C17_OneDrawPerFrame ==
    /\ (last.op = "render_frame" /\ last.err = "ok") =>
          /\ Cardinality(CallsOf(last, "draw", None)) = 1
          /\ \A d \in CallsOf(last, "draw", None) :
                /\ \A i \in 1..nplots :
                      \E p \in CallsOf(last, "plot", i - 1)
                                  \cup CallsOf(last, "set_ydata", i - 1) : p < d
                /\ \A p \in 1..Len(last.backend) :
                      last.backend[p].f \in {"plot", "set_ydata", "set_xlim",
                                             "set_ylim", "set_facecolor"} => p < d
    /\ last.op = "set_colors" => last.backend = <<>>

C17_Witness ==
    /\ last.op = "render_frame" /\ last.err = "ok"
    /\ nplots = 2
    /\ CallsOf(last, "set_ydata", 0) = {1}
    /\ CallsOf(last, "set_ydata", 1) = {2}
    /\ CallsOf(last, "draw", None) = {3}

\* C18: for both orientations, arrange gives the channels pairwise distinct
\* cells, each of them inside the nrows x ncols grid.
C18_DistinctCellsInsideGrid ==
    ArrangeDone =>
       /\ \A i, j \in 1..Len(regions) : i # j => regions[i] # regions[j]
       /\ \A i \in 1..Len(regions) :
             /\ regions[i][1] \in 0..(layout.nrows - 1)
             /\ regions[i][2] \in 0..(layout.ncols - 1)

C18_Witness ==
    /\ ArrangeDone
    /\ layout.orientation = "v"
    /\ layout.nrows = 2 /\ layout.ncols = 3
    /\ Len(regions) = 5
    /\ regions[2] = <<1, 0>>
    /\ regions[5] = <<0, 2>>

\* C19: in every reachable state in which self._lines is a list it holds
\* exactly nplots lines, one per channel, also after a first render_frame
\* that a failure of the backend aborted while it plotted some channel k.
C19_ListHoldsAllLines ==
    ~lines.none => Len(lines.elems) = nplots

====
